---- MODULE Spec2Model ----
(***************************************************************************)
(* A model of app.py, the camera-capture photobooth.                       *)
(*                                                                         *)
(* The Streamlit script is re-run from top to bottom on every widget       *)
(* interaction; one action of the model is one such run (with the          *)
(* st.rerun() of the Clear Gallery handler folded into the run that        *)
(* triggers it).  st.session_state survives between runs, everything else  *)
(* is what the last run put on the page.                                   *)
(*                                                                         *)
(* Images are abstracted to their numpy shape, one representative pixel    *)
(* (the image is uniformly coloured), the list of library transforms whose *)
(* numeric result is not interpreted, and the width of the white border.   *)
(* An optional value (Python None or a value) is a sequence of length 0    *)
(* or 1.                                                                   *)
(***************************************************************************)
EXTENDS Integers, Sequences, FiniteSets, TLC

VARIABLES
    photos_with_emotions, \* st.session_state.photos_with_emotions
    emotion_data,         \* st.session_state.emotion_data
    lastAction,           \* which interaction caused the last script run
    cap,                  \* what st.camera_input returned in the last run
    classifier,           \* what DeepFace.analyze did in the last run: "none"
                          \* (not called), "raise" or "return"
    photos,               \* first value returned by capture_photos
    analysis_results,     \* second value returned by capture_photos
    errors,               \* number of st.error boxes on the page
    classifierCalls,      \* number of DeepFace.analyze calls of the last run
    status,               \* dominant emotion in the status placeholder
    photo_strip,          \* the strip shown on the page
    downloadOffered,      \* the download button is on the page
    clearOffered,         \* the Clear Gallery button is on the page
    fn,                   \* unit under call: function name
    args,                 \* unit under call: arguments
    result                \* unit under call: returned value

vars == <<photos_with_emotions, emotion_data, lastAction, cap, classifier,
          photos, analysis_results, errors, classifierCalls, status,
          photo_strip, downloadOffered, clearOffered, fn, args, result>>

sessionVars == <<photos_with_emotions, emotion_data, lastAction, cap,
                 classifier, photos, analysis_results, errors,
                 classifierCalls, status, photo_strip, downloadOffered,
                 clearOffered>>

unitVars == <<fn, args, result>>

----------------------------------------------------------------------------
(* Bounds of the model *)

\* longest gallery explored
MaxGallery == 2
\* emotion labels of the classifier that are modelled
NumLabels == 2
\* longest photo list handed to create_photo_strip
MaxPhotos == 3

----------------------------------------------------------------------------
(* Values *)

None == <<>>

Some(v) == <<v>>

\* Python truthiness of an optional list: None and [] are both false
Truthy(optList) == optList # None /\ optList[1] # <<>>

Min(a, b) == IF a < b THEN a ELSE b

filter_options == <<"Original", "Sepia", "Vintage", "Cool", "Summer", "Dramatic">>

FilterNames == {filter_options[i] : i \in 1..Len(filter_options)}

AllLabels == <<"angry", "disgust", "fear", "happy", "sad", "surprise", "neutral">>

Labels == SubSeq(AllLabels, 1, Min(NumLabels, Len(AllLabels)))

\* The dominant label depends only on which positions hold the maximal score;
\* two score levels produce every non-empty set of maximal positions.
Scores == {0, 1}

\* a score mapping is an insertion-ordered dict: a sequence of <<label, score>>
EmotionDicts ==
    {[i \in 1..Len(Labels) |-> <<Labels[i], s[i]>>] :
        s \in [1..Len(Labels) -> Scores]}

Image(h, w, ch, px) ==
    [shape |-> IF ch = 1 THEN <<h, w>> ELSE <<h, w, ch>>,
     px |-> px, ops |-> <<>>, border |-> 0]

\* what the camera widget can hand to the script: nothing, or an RGB image
CameraImages == {Image(4, 6, 3, <<200, 100, 50>>)}

\* the sidebar settings <<black_white, selected_filter>> tried in the session;
\* all six filters are tried in the direct calls of apply_filter
SessionSettings ==
    {<<FALSE, "Original">>, <<TRUE, "Original">>, <<FALSE, "Sepia">>}

CameraOutcomes == {None} \cup {Some(img) : img \in CameraImages}

\* what DeepFace.analyze can do: raise, return a dict, return a list of dicts
ClassifierOutcomes ==
    {[kind |-> "raise", value |-> <<>>], [kind |-> "list", value |-> <<>>]}
    \cup {[kind |-> k, value |-> <<[emotion |-> e]>>] :
            k \in {"dict", "list"}, e \in EmotionDicts}

----------------------------------------------------------------------------
(* Image transforms *)

\* cv2.cvtColor(image, cv2.COLOR_GRAY2RGB)
GRAY2RGB(image) ==
    [image EXCEPT !.shape = <<image.shape[1], image.shape[2], 3>>,
                  !.px = <<image.px[1], image.px[1], image.px[1]>>]

\* cv2.cvtColor(image, cv2.COLOR_RGB2GRAY): 8-bit fixed-point luma
RGB2GRAY(image) ==
    [image EXCEPT !.shape = <<image.shape[1], image.shape[2]>>,
                  !.px = <<(4899 * image.px[1] + 9617 * image.px[2]
                            + 1868 * image.px[3] + 8192) \div 16384>>]

\* np.clip(x, 0, 255) of a value scaled by 1000, rounded
Clip255(x1000) == Min((x1000 + 500) \div 1000, 255)

\* cv2.transform(image, sepia_filter) followed by the clip
SepiaPx(p) ==
    <<Clip255(393 * p[1] + 769 * p[2] + 189 * p[3]),
      Clip255(349 * p[1] + 686 * p[2] + 168 * p[3]),
      Clip255(272 * p[1] + 534 * p[2] + 131 * p[3])>>

\* a library transform that keeps the shape and whose pixels are opaque
Opaque(image, names) == [image EXCEPT !.ops = image.ops \o names]

\* mutant: "Original" is tested before the grayscale conversion
apply_filter_original_first(image0, filter_name) ==
    IF filter_name = "Original" THEN image0
    ELSE
        LET image == IF Len(image0.shape) = 2 THEN GRAY2RGB(image0) ELSE image0
        IN  CASE filter_name = "Sepia" -> [image EXCEPT !.px = SepiaPx(image.px)]
              [] filter_name = "Vintage" -> Opaque(image, <<"COLORMAP_BONE">>)
              [] filter_name = "Cool" -> Opaque(image, <<"COLORMAP_COOL">>)
              [] filter_name = "Summer" ->
                    Opaque(image, <<"adjust_gamma(1.2)", "adjust_sigmoid">>)
              [] filter_name = "Dramatic" ->
                    Opaque(image, <<"adjust_gamma(2.0)", "unsharp_mask">>)
              [] OTHER -> image

apply_filter(image0, filter_name) ==
    LET image == IF Len(image0.shape) = 2 THEN GRAY2RGB(image0) ELSE image0
    IN  CASE filter_name = "Original" -> image
          [] filter_name = "Sepia" -> [image EXCEPT !.px = SepiaPx(image.px)]
          [] filter_name = "Vintage" -> Opaque(image, <<"COLORMAP_BONE">>)
          [] filter_name = "Cool" -> Opaque(image, <<"COLORMAP_COOL">>)
          [] filter_name = "Summer" ->
                Opaque(image, <<"adjust_gamma(1.2)", "adjust_sigmoid">>)
          [] filter_name = "Dramatic" ->
                Opaque(image, <<"adjust_gamma(2.0)", "unsharp_mask">>)
          [] OTHER -> image

frame_width == 50

add_frame(image0) ==
    LET image == IF Len(image0.shape) = 2 THEN GRAY2RGB(image0) ELSE image0
        h == image.shape[1]
        w == image.shape[2]
    IN  [image EXCEPT !.shape = <<h + 2 * frame_width, w + 2 * frame_width, 3>>,
                      !.border = frame_width]

----------------------------------------------------------------------------
(* Photo strip *)

padding == 20

date_height == 40

\* numpy broadcasting of a 3-channel photo into a (ph, pw, 3) slice
Broadcasts(photo, ph, pw) ==
    /\ photo.shape[1] \in {ph, 1}
    /\ photo.shape[2] \in {pw, 1}

\* mutant: padding is counted after every photo, the last one included
create_photo_strip_pad_each(ps) ==
    IF ps = <<>>
    THEN [raised |-> FALSE, value |-> None]
    ELSE
        LET photo_height == ps[1].shape[1]
            photo_width == ps[1].shape[2]
            strip_height == (photo_height * Len(ps))
                            + (padding * Len(ps)) + date_height
            y_start(i) == (i - 1) * (photo_height + padding)
            y_end(i) == y_start(i) + photo_height
        IN  IF \E i \in 1..Len(ps) : ~Broadcasts(ps[i], photo_height, photo_width)
            THEN [raised |-> TRUE, value |-> None]
            ELSE [raised |-> FALSE,
                  value |-> Some(
                    [shape |-> <<strip_height, photo_width, 3>>,
                     rows |-> [i \in 1..Len(ps) |-> <<y_start(i), y_end(i)>>],
                     pasted |-> ps,
                     text_y |-> strip_height - date_height + 10])]

\* raised: the slice assignment raised ValueError; value: the returned value
create_photo_strip(ps) ==
    IF ps = <<>>
    THEN [raised |-> FALSE, value |-> None]
    ELSE
        LET photo_height == ps[1].shape[1]
            photo_width == ps[1].shape[2]
            strip_height == (photo_height * Len(ps))
                            + (padding * (Len(ps) - 1)) + date_height
            y_start(i) == (i - 1) * (photo_height + padding)
            y_end(i) == y_start(i) + photo_height
        IN  IF \E i \in 1..Len(ps) : ~Broadcasts(ps[i], photo_height, photo_width)
            THEN [raised |-> TRUE, value |-> None]
            ELSE [raised |-> FALSE,
                  value |-> Some(
                    [shape |-> <<strip_height, photo_width, 3>>,
                     rows |-> [i \in 1..Len(ps) |-> <<y_start(i), y_end(i)>>],
                     pasted |-> ps,
                     text_y |-> strip_height - date_height + 10])]

----------------------------------------------------------------------------
(* Emotion analysis *)

\* result: the returned value (None or the analysis); errors: st.error calls
analyze_face(outcome) ==
    CASE outcome.kind = "raise" -> [result |-> None, errors |-> 1]
      [] outcome.kind = "list" /\ outcome.value = <<>> ->
            \* result[0] raises IndexError inside the try
            [result |-> None, errors |-> 1]
      [] OTHER -> [result |-> Some(outcome.value[1]), errors |-> 0]

\* mutant: the copy is built but never appended
update_emotion_data_no_append(data, emotion_dict) == data

update_emotion_data(data, emotion_dict) == Append(data, emotion_dict)

RECURSIVE MaxFrom_last(_, _, _)
\* mutant: an equal score replaces the running best (the last maximum wins)
MaxFrom_last(items, i, best) ==
    IF i > Len(items) THEN best
    ELSE MaxFrom_last(items, i + 1,
                      IF items[i][2] >= items[best][2] THEN i ELSE best)

RECURSIVE MaxFrom(_, _, _)
\* Python max(items, key=score): the running best is replaced only by a
\* strictly larger score
MaxFrom(items, i, best) ==
    IF i > Len(items) THEN best
    ELSE MaxFrom(items, i + 1,
                 IF items[i][2] > items[best][2] THEN i ELSE best)

\* max(emotions.items(), key=lambda x: x[1])[0]
dominant_emotion(emotions) == emotions[MaxFrom(emotions, 2, 1)][1]

----------------------------------------------------------------------------
(* capture_photos *)

num_photos == 3

delay == 3

\* mutant: an empty capture is reported with st.error
NoCapture_reports_error(data) ==
    [photos |-> None, analysis_results |-> None, emotion_data |-> data,
     errors |-> 1, calls |-> 0, status |-> None]

\* the else branch of capture_photos: return None, None
NoCapture(data) ==
    [photos |-> None, analysis_results |-> None, emotion_data |-> data,
     errors |-> 0, calls |-> 0, status |-> None]

\* n and d are num_photos and delay: the body never reads them
capture_photos(data, n, d, black_white, selected_filter, camera, outcome) ==
    IF camera # None
    THEN
        LET analysis == analyze_face(outcome)
            analysed == analysis.result # None
            cap1 == IF black_white
                    THEN GRAY2RGB(RGB2GRAY(camera[1]))
                    ELSE camera[1]
            cap2 == apply_filter(cap1, selected_filter)
            cap3 == add_frame(cap2)
        IN  [photos |-> Some(<<cap3>>),
             analysis_results |->
                Some(IF analysed THEN <<analysis.result[1]>> ELSE <<>>),
             emotion_data |->
                IF analysed
                THEN update_emotion_data(data, analysis.result[1].emotion)
                ELSE data,
             errors |-> analysis.errors,
             calls |-> 1,
             status |->
                IF analysed
                THEN Some(dominant_emotion(analysis.result[1].emotion))
                ELSE None]
    ELSE NoCapture(data)

\* mutant: the gallery is assigned the new entries instead of extended
StoreEntries_overwrite(gallery, ps, rs, i) ==
    [j \in 1..Min(Len(ps), Len(rs)) |->
        [photo |-> ps[j], emotion |-> dominant_emotion(rs[j].emotion)]]

RECURSIVE StoreEntries(_, _, _, _)
\* for photo, analysis in zip(photos, analysis_results): append an entry
StoreEntries(gallery, ps, rs, i) ==
    IF i > Min(Len(ps), Len(rs)) THEN gallery
    ELSE StoreEntries(
            Append(gallery, [photo |-> ps[i],
                             emotion |-> dominant_emotion(rs[i].emotion)]),
            ps, rs, i + 1)

\* mutant: the button needs more than one entry
ClearButtonShown_off_by_one(gallery) == Len(gallery) > 1

\* if len(st.session_state.photos_with_emotions) > 0: st.button("Clear Gallery")
ClearButtonShown(gallery) == Len(gallery) > 0

----------------------------------------------------------------------------
(* The session: one action per script run *)

Init ==
    /\ photos_with_emotions = <<>>
    /\ emotion_data = <<>>
    /\ lastAction = "start"
    /\ cap = None
    /\ classifier = "none"
    /\ photos = None
    /\ analysis_results = None
    /\ errors = 0
    /\ classifierCalls = 0
    /\ status = None
    /\ photo_strip = None
    /\ downloadOffered = FALSE
    /\ clearOffered = FALSE
    /\ fn = "none"
    /\ args = <<>>
    /\ result = None

\* the user presses "Start Photoshoot!"
Photoshoot ==
    /\ Len(photos_with_emotions) < MaxGallery
    /\ \E settings \in SessionSettings,
          camera \in CameraOutcomes, outcome \in ClassifierOutcomes :
        LET black_white == settings[1]
            selected_filter == settings[2]
            r == capture_photos(emotion_data, num_photos, delay, black_white,
                                selected_filter, camera, outcome)
            stored == Truthy(r.photos) /\ Truthy(r.analysis_results)
            gallery == IF stored
                       THEN StoreEntries(photos_with_emotions, r.photos[1],
                                         r.analysis_results[1], 1)
                       ELSE photos_with_emotions
            strip == IF stored
                     THEN create_photo_strip(r.photos[1]).value
                     ELSE None
        IN  /\ photos_with_emotions' = gallery
            /\ emotion_data' = r.emotion_data
            /\ lastAction' = "photoshoot"
            /\ cap' = camera
            /\ classifier' = CASE r.calls = 0 -> "none"
                                [] outcome.kind = "raise" -> "raise"
                                [] OTHER -> "return"
            /\ photos' = r.photos
            /\ analysis_results' = r.analysis_results
            /\ errors' = r.errors
            /\ classifierCalls' = r.calls
            /\ status' = r.status
            /\ photo_strip' = strip
            /\ downloadOffered' = (strip # None)
            /\ clearOffered' = ClearButtonShown(gallery)
    /\ UNCHANGED unitVars

\* mutant: only the gallery is emptied
ClearGallery_gallery_only ==
    /\ clearOffered
    /\ photos_with_emotions' = <<>>
    /\ emotion_data' = emotion_data
    /\ lastAction' = "clear"
    /\ cap' = None
    /\ classifier' = "none"
    /\ photos' = None
    /\ analysis_results' = None
    /\ errors' = 0
    /\ classifierCalls' = 0
    /\ status' = None
    /\ photo_strip' = None
    /\ downloadOffered' = FALSE
    /\ clearOffered' = ClearButtonShown(photos_with_emotions')
    /\ UNCHANGED unitVars

\* the user presses "Clear Gallery"; the handler ends in st.rerun()
ClearGallery ==
    /\ clearOffered
    /\ photos_with_emotions' = <<>>
    /\ emotion_data' = <<>>
    /\ lastAction' = "clear"
    /\ cap' = None
    /\ classifier' = "none"
    /\ photos' = None
    /\ analysis_results' = None
    /\ errors' = 0
    /\ classifierCalls' = 0
    /\ status' = None
    /\ photo_strip' = None
    /\ downloadOffered' = FALSE
    /\ clearOffered' = ClearButtonShown(photos_with_emotions')
    /\ UNCHANGED unitVars

\* any other interaction (a sidebar setting, the download button): the
\* script runs with both buttons unpressed
Rerun ==
    /\ lastAction' = "rerun"
    /\ cap' = None
    /\ classifier' = "none"
    /\ photos' = None
    /\ analysis_results' = None
    /\ errors' = 0
    /\ classifierCalls' = 0
    /\ status' = None
    /\ photo_strip' = None
    /\ downloadOffered' = FALSE
    /\ clearOffered' = ClearButtonShown(photos_with_emotions)
    /\ UNCHANGED <<photos_with_emotions, emotion_data>>
    /\ UNCHANGED unitVars

Next == Photoshoot \/ ClearGallery \/ Rerun

Spec == Init /\ [][Next]_vars

----------------------------------------------------------------------------
(* Direct calls of the pure functions *)

\* grayscale and RGB inputs of several sizes
UnitImages ==
    {Image(h, w, 1, <<v>>) : h \in {1, 4}, w \in {1, 6}, v \in {0, 90, 255}}
    \cup {Image(h, w, 3, p) : h \in {1, 4}, w \in {1, 6},
                              p \in {<<0, 0, 0>>, <<200, 100, 50>>,
                                     <<255, 255, 255>>}}

\* framed photos as create_photo_strip receives them
UnitPhotos ==
    {Image(h, w, 3, <<255, 255, 255>>) : h \in {100, 1}, w \in {100, 1}}

RECURSIVE SeqsUpTo(_, _)
SeqsUpTo(S, n) ==
    IF n = 0 THEN {<<>>}
    ELSE LET shorter == SeqsUpTo(S, n - 1)
         IN  shorter \cup {Append(q, x) : q \in shorter, x \in S}

UnitInit ==
    /\ photos_with_emotions = <<>>
    /\ emotion_data = <<>>
    /\ lastAction = "start"
    /\ cap = None
    /\ classifier = "none"
    /\ photos = None
    /\ analysis_results = None
    /\ errors = 0
    /\ classifierCalls = 0
    /\ status = None
    /\ photo_strip = None
    /\ downloadOffered = FALSE
    /\ clearOffered = FALSE
    /\ result = None
    /\ \/ /\ fn = "apply_filter"
          /\ args \in {<<image, name>> : image \in UnitImages, name \in FilterNames}
       \/ /\ fn = "create_photo_strip"
          /\ args \in {<<ps>> : ps \in SeqsUpTo(UnitPhotos, MaxPhotos)}

CallApplyFilter ==
    /\ fn = "apply_filter"
    /\ result = None
    /\ result' = Some(apply_filter(args[1], args[2]))
    /\ UNCHANGED <<fn, args>>
    /\ UNCHANGED sessionVars

CallCreatePhotoStrip ==
    /\ fn = "create_photo_strip"
    /\ result = None
    /\ result' = Some(create_photo_strip(args[1]))
    /\ UNCHANGED <<fn, args>>
    /\ UNCHANGED sessionVars

UnitNext == CallApplyFilter \/ CallCreatePhotoStrip

UnitSpec == UnitInit /\ [][UnitNext]_vars

----------------------------------------------------------------------------
(* Properties of the session (checked under Spec) *)

IsPrefix(a, b) == Len(a) <= Len(b) /\ SubSeq(b, 1, Len(a)) = a

\* label is at the first position of d whose score is maximal
IsDominant(d, label) ==
    \E k \in 1..Len(d) :
        /\ d[k][1] = label
        /\ \A j \in 1..Len(d) : d[j][2] <= d[k][2]
        /\ \A j \in 1..(k - 1) : d[j][2] < d[k][2]

\* C1: in every reachable state the gallery and the emotion history have
\* the same number of entries.
C1_SameLength == Len(photos_with_emotions) = Len(emotion_data)

\* a second entry was stored, and a shoot whose classifier raised came after
\* a stored entry
C1_Witness ==
    /\ lastAction = "photoshoot"
    /\ classifier = "raise"
    /\ Len(photos_with_emotions) = 1
    /\ Len(emotion_data) = 1

\* C2: the state a Clear Gallery action leaves has both lists empty; no
\* state has one of them cleared and the other not.
C2_ClearEmptiesBoth ==
    lastAction = "clear" => photos_with_emotions = <<>> /\ emotion_data = <<>>

\* Clear Gallery has run (it is only offered on a non-empty gallery)
C2_Witness ==
    /\ lastAction = "clear"
    /\ ~clearOffered
    /\ emotion_data = <<>>

\* C3 as claimed: when the classifier raises for a captured photo, one error
\* is shown, no emotion-history entry is added, and the photo still goes
\* through filter, frame and strip composition.
C3_Claim ==
    [][(lastAction' = "photoshoot" /\ classifier' = "raise") =>
        /\ errors' = 1
        /\ analysis_results' = Some(<<>>)
        /\ emotion_data' = emotion_data
        /\ photos' # None
        /\ Len(photos'[1]) = 1
        /\ photos'[1][1].border = 50
        /\ photo_strip' # None]_vars

\* C4 as claimed: a photoshoot of 3 photos in which the classifier raises
\* for exactly one photo adds exactly 2 gallery entries and shows the error
\* exactly once.  (No call of the handler can raise outside analyze_face's
\* try block for the inputs modelled, so "no exception escapes" adds nothing
\* to the formula.)
C4_Claim ==
    [][(lastAction' = "photoshoot" /\ classifier' = "raise") =>
        /\ Len(photos_with_emotions') = Len(photos_with_emotions) + 2
        /\ errors' = 1]_vars

\* C5: a photoshoot in which the camera yields nothing calls no classifier,
\* shows no strip, no download button and no error, and leaves the gallery
\* and the emotion history as they were.
C5_EmptyCapture ==
    [][(lastAction' = "photoshoot" /\ cap' = None) =>
        /\ classifierCalls' = 0
        /\ photo_strip' = None
        /\ ~downloadOffered'
        /\ errors' = 0
        /\ photos_with_emotions' = photos_with_emotions
        /\ emotion_data' = emotion_data]_vars

\* an empty capture on a session that already holds an entry
C5_Witness ==
    /\ lastAction = "photoshoot"
    /\ cap = None
    /\ Len(photos_with_emotions) >= 1
    /\ photo_strip = None

\* C8: every gallery entry's label is the first label with maximal score in
\* the score mapping recorded for the same photo, and so is the label shown
\* in the status line of the last shoot.
C8_Dominant ==
    /\ \A i \in 1..Len(photos_with_emotions) :
        /\ i <= Len(emotion_data)
        /\ IsDominant(emotion_data[i], photos_with_emotions[i].emotion)
    /\ status # None =>
        /\ emotion_data # <<>>
        /\ IsDominant(emotion_data[Len(emotion_data)], status[1])

\* an entry whose scores are all equal got the first label, and another whose
\* maximum is at the last position got the last label
C8_Witness ==
    /\ Len(photos_with_emotions) = 2
    /\ Len(emotion_data) = 2
    /\ \A j \in 1..Len(Labels) : emotion_data[1][j][2] = 1
    /\ photos_with_emotions[1].emotion = Labels[1]
    /\ emotion_data[2][Len(Labels)][2] = 1
    /\ \A j \in 1..(Len(Labels) - 1) : emotion_data[2][j][2] = 0
    /\ photos_with_emotions[2].emotion = Labels[Len(Labels)]

\* C9: every step either is Clear Gallery and empties both lists, or keeps
\* every stored entry of both lists in place and only adds at the end.
C9_AppendOnly ==
    [][\/ /\ lastAction' = "clear"
          /\ photos_with_emotions' = <<>>
          /\ emotion_data' = <<>>
       \/ /\ lastAction' # "clear"
          /\ IsPrefix(photos_with_emotions, photos_with_emotions')
          /\ IsPrefix(emotion_data, emotion_data')]_vars

\* a shoot appended a second entry behind a different first one
C9_Witness ==
    /\ lastAction = "photoshoot"
    /\ classifier = "return"
    /\ Len(photos_with_emotions) = 2
    /\ photos_with_emotions[1] # photos_with_emotions[2]
    /\ emotion_data[1] # emotion_data[2]

\* C10: the Clear Gallery button is on the page exactly when the gallery is
\* non-empty, and whenever the emotion history is non-empty.
C10_ClearOffered ==
    /\ clearOffered <=> Len(photos_with_emotions) > 0
    /\ Len(emotion_data) > 0 => clearOffered

\* the button is on the page with one stored entry
C10_Witness ==
    /\ clearOffered
    /\ Len(emotion_data) = 1
    /\ Len(photos_with_emotions) = 1
    /\ lastAction = "rerun"

----------------------------------------------------------------------------
(* Properties of the pure functions (checked under UnitSpec) *)

Uniform(ps) == \A i \in 1..Len(ps) : ps[i].shape = ps[1].shape

\* C6: create_photo_strip returns none for the empty list; for n >= 1 photos
\* of one height h and width w the strip is w wide and n*h + 20*(n-1) + 40
\* high, photo i (0-based) occupies rows [i*(h+20), i*(h+20)+h), the row
\* ranges are pairwise disjoint and the last one ends where the 40-row
\* caption band begins.
C6_StripGeometry ==
    (fn = "create_photo_strip" /\ result # None) =>
        LET ps == args[1]
            r == result[1]
            n == Len(ps)
            h == ps[1].shape[1]
            w == ps[1].shape[2]
        IN  /\ ps = <<>> => (r.value = None /\ ~r.raised)
            /\ (ps # <<>> /\ Uniform(ps)) =>
                /\ ~r.raised
                /\ r.value # None
                /\ r.value[1].shape = <<n * h + 20 * (n - 1) + 40, w, 3>>
                /\ n = 1 => r.value[1].shape[1] = h + 40
                /\ (n = 3 /\ h = 100 /\ w = 100) =>
                        r.value[1].shape = <<380, 100, 3>>
                /\ Len(r.value[1].rows) = n
                /\ \A i \in 1..n :
                        r.value[1].rows[i]
                          = <<(i - 1) * (h + 20), (i - 1) * (h + 20) + h>>
                /\ \A i, j \in 1..n :
                        i < j => r.value[1].rows[i][2] <= r.value[1].rows[j][1]
                /\ r.value[1].rows[n][2] = r.value[1].shape[1] - 40

\* three 100x100 photos were composed into a strip
C6_Witness ==
    /\ fn = "create_photo_strip"
    /\ result # None
    /\ Len(args[1]) = 3
    /\ \A i \in 1..3 : args[1][i].shape = <<100, 100, 3>>
    /\ result[1].value # None
    /\ result[1].value[1].shape = <<380, 100, 3>>

\* C7 as claimed: for every filter name and every grayscale or RGB input the
\* result has the input's height and width, and "Original" returns the input
\* unchanged.
C7_Claim ==
    (fn = "apply_filter" /\ result # None) =>
        /\ result[1].shape[1] = args[1].shape[1]
        /\ result[1].shape[2] = args[1].shape[2]
        /\ args[2] = "Original" => result[1] = args[1]

\* C7 amended: the result has the input's height and width and three
\* channels; "Original" returns an RGB input unchanged and returns a
\* grayscale input converted to RGB (each pixel's value in all three
\* channels).
C7_Amended ==
    (fn = "apply_filter" /\ result # None) =>
        /\ result[1].shape = <<args[1].shape[1], args[1].shape[2], 3>>
        /\ (args[2] = "Original" /\ Len(args[1].shape) = 3) =>
                result[1] = args[1]
        /\ (args[2] = "Original" /\ Len(args[1].shape) = 2) =>
                /\ result[1].px
                     = <<args[1].px[1], args[1].px[1], args[1].px[1]>>
                /\ result[1].ops = <<>>
                /\ result[1].border = args[1].border

\* "Original" was applied to a grayscale image
C7_Witness ==
    /\ fn = "apply_filter"
    /\ result # None
    /\ args[2] = "Original"
    /\ Len(args[1].shape) = 2
    /\ Len(result[1].shape) = 3

====
